---- MODULE Spec2Model ----
(***************************************************************************)
(* Model of the three scripts of the repository:                           *)
(*   BacktesterV1.py  - SMA crossover backtest of one price series         *)
(*   BacktesterV2.py  - SMA crossover with an RSI filter                   *)
(*   news_gathererV1.py - fetch, clean and sort news for a watchlist       *)
(*                                                                         *)
(* Numbers.  pandas/numpy work on IEEE doubles.  A value is modelled as a  *)
(* pair <<n, d>>: a reduced fraction n/d with d > 0, or one of the three   *)
(* special values NaN = <<0,0>>, +inf = <<1,0>>, -inf = <<-1,0>>.  The      *)
(* arithmetic below is exact rational arithmetic with the IEEE rules for   *)
(* the special values (x/0, 0/0, inf-inf, comparisons with NaN are false). *)
(* Rounding error of doubles is not modelled.                              *)
(***************************************************************************)
EXTENDS Integers, Sequences, FiniteSets, TLC

VARIABLES
    prog,            \* which script runs: "V1", "V2" or "news"
    pc,              \* the statement group the script is about to execute
    data,            \* the DataFrame `data`: a sequence of rows, each a function column -> value
    peer,            \* two-run comparison only: the DataFrame of a second run of the same script
    cut,             \* two-run comparison only: the date of the one bar the two downloads differ in
    std,             \* std_dr (V1) / std (V2), stored as its square (the sample variance)
    sharpe,          \* annual_sharpe (V1) / sharpe (V2), stored as sign(s) * s^2
    max_dd,          \* max_dd
    printed,         \* what the final print statements have written, <<>> before
    raised,          \* the exception that ended the script, "none" while none has
    tz,              \* news: the machine's local UTC offset in hours (datetime.fromtimestamp reads it)
    feed,            \* news: what fetching each watchlist entry did so far: raised, or the stories it got
    idx,             \* news: the watchlist entry the main loop is at (1-based)
    all_market_news, \* news: the master list
    stdout           \* news: the "Error on <ticker>" lines printed by the except branch

vars == <<prog, pc, data, peer, cut, std, sharpe, max_dd, printed, raised,
          tz, feed, idx, all_market_news, stdout>>

btVars == <<data, peer, cut, std, sharpe, max_dd, printed, raised>>
newsVars == <<tz, feed, idx, all_market_news, stdout>>

----------------------------------------------------------------------------
(* Bounds of the model (not program constants).                            *)

\* closes are drawn from 1..MaxPrice
MaxPrice == 2
\* number of free bars that follow the constant lead-in of a price series
MaxTail == 3
\* the same, for the two downloads of a two-run comparison
PairTail == 2
\* number of stories the whole watchlist yields in one run
MaxStories == 2

(* Program constants.                                                      *)
SMA_FAST == 10
SMA_SLOW == 50
EWM_COM == 13
EWM_MIN_PERIODS == 14
RSI_OVERBOUGHT == 70
TRADING_DAYS == 252

----------------------------------------------------------------------------
(* IEEE-like values over exact fractions.                                  *)

NaN == <<0, 0>>
PosInf == <<1, 0>>
NegInf == <<-1, 0>>
Zero == <<0, 1>>
One == <<1, 1>>

IsNaN(x) == x = NaN
IsInf(x) == x[2] = 0 /\ x[1] # 0
IsFinite(x) == x[2] # 0

Abs(n) == IF n < 0 THEN -n ELSE n
Sgn(n) == IF n < 0 THEN -1 ELSE IF n > 0 THEN 1 ELSE 0

RECURSIVE Gcd(_, _)
Gcd(a, b) == IF b = 0 THEN a ELSE Gcd(b, a % b)

\* the reduced fraction n/d, d # 0
Frac(n, d) ==
    LET g == Gcd(Abs(n), Abs(d))
        s == IF d < 0 THEN -1 ELSE 1
    IN  <<(s * n) \div g, (s * d) \div g>>

Num(n) == <<n, 1>>

FNeg(x) == <<-x[1], x[2]>>

FAdd(x, y) ==
    IF IsNaN(x) \/ IsNaN(y) THEN NaN
    ELSE IF IsInf(x) /\ IsInf(y) THEN (IF x = y THEN x ELSE NaN)
    ELSE IF IsInf(x) THEN x
    ELSE IF IsInf(y) THEN y
    ELSE LET g == Gcd(x[2], y[2])
         IN  Frac(x[1] * (y[2] \div g) + y[1] * (x[2] \div g), (x[2] \div g) * y[2])

FSub(x, y) == FAdd(x, FNeg(y))

FMul(x, y) ==
    IF IsNaN(x) \/ IsNaN(y) THEN NaN
    ELSE IF IsInf(x) \/ IsInf(y)
         THEN (IF x[1] = 0 \/ y[1] = 0 THEN NaN ELSE <<Sgn(x[1]) * Sgn(y[1]), 0>>)
    ELSE LET a == Frac(x[1], y[2])
             b == Frac(y[1], x[2])
         IN  <<a[1] * b[1], a[2] * b[2]>>

\* x / y; a zero divisor is +0.0
FDiv(x, y) ==
    IF IsNaN(x) \/ IsNaN(y) THEN NaN
    ELSE IF IsInf(y) THEN (IF IsInf(x) THEN NaN ELSE Zero)
    ELSE IF y[1] = 0 THEN (IF x[1] = 0 THEN NaN ELSE <<Sgn(x[1]), 0>>)
    ELSE IF IsInf(x) THEN <<Sgn(x[1]) * Sgn(y[1]), 0>>
    ELSE FMul(x, Frac(y[2], y[1]))

\* x < y; false when either is NaN
FLt(x, y) ==
    IF IsNaN(x) \/ IsNaN(y) THEN FALSE
    ELSE IF IsInf(x) \/ IsInf(y)
         THEN (IF IsInf(x) /\ IsInf(y) THEN x[1] < y[1]
               ELSE IF IsInf(x) THEN x[1] < 0
               ELSE y[1] > 0)
    ELSE x[1] * y[2] < y[1] * x[2]

FGt(x, y) == FLt(y, x)
FLe(x, y) == ~IsNaN(x) /\ ~IsNaN(y) /\ ~FLt(y, x)

\* sign(x) * x^2: the strictly increasing map used to store a value whose
\* definition takes a square root
SignedSquare(x) ==
    IF ~IsFinite(x) THEN x ELSE <<Sgn(x[1]) * x[1] * x[1], x[2] * x[2]>>

----------------------------------------------------------------------------
(* DataFrame and Series operations of pandas/numpy that the scripts use.   *)
(* A Series is a sequence of values; position 1 is the first row.          *)

\* an explicit sequence holding the n values of col
Series(col, n) == SubSeq(col, 1, n)

Col(f, c) == Series([i \in 1..Len(f) |-> f[i][c]], Len(f))
WithCol(f, c, col) == Series([i \in 1..Len(f) |-> f[i] @@ (c :> col[i])], Len(f))

\* DataFrame.dropna(): drop every row that holds a missing value
Dropna(f) == SelectSeq(f, LAMBDA r : \A c \in (DOMAIN r) \ {"date"} : ~IsNaN(r[c]))

\* c/(1+c) to the power k, and the join of two adjacent stretches of an
\* exponentially weighted sum: a stretch is <<weighted sum, length>>
RECURSIVE DecayPow(_, _)
DecayPow(c, k) == IF k = 0 THEN One ELSE FMul(Frac(c, 1 + c), DecayPow(c, k - 1))

EwmJoin(c, older, newer) ==
    <<IF older[1] = Zero THEN newer[1]
      ELSE FAdd(newer[1], FMul(DecayPow(c, newer[2]), older[1])),
      older[2] + newer[2]>>

\* maximum / minimum of two values, a NaN giving way to the other
MaxSkip(x, y) == IF IsNaN(x) THEN y ELSE IF IsNaN(y) \/ FGt(x, y) THEN x ELSE y
MinSkip(x, y) == IF IsNaN(x) THEN y ELSE IF IsNaN(y) \/ FLt(x, y) THEN x ELSE y

\* one step of a running fold
Fold(op, a, b) ==
    CASE op.name = "sum" -> FAdd(a, b)
      [] op.name = "prod" -> FMul(a, b)
      [] op.name = "max" -> MaxSkip(a, b)
      [] op.name = "min" -> MinSkip(a, b)
      [] op.name = "ewm" -> EwmJoin(op.com, a, b)

\* The running fold of an associative operation over col[lo..hi]: the
\* sequence <<col[lo], op(col[lo], col[lo+1]), ...>>.  pandas folds left to
\* right; the halves are folded separately here and joined, which is the
\* same sequence because the operation is associative.  Fold names the
\* operation: a sum, a product, a running maximum or minimum, or the join of
\* two stretches of an exponentially weighted sum.
RECURSIVE Scan(_, _, _, _)
Scan(op, col, lo, hi) ==
    IF lo > hi THEN <<>>
    ELSE IF lo = hi THEN <<col[lo]>>
    ELSE LET mid == (lo + hi) \div 2
             left == Scan(op, col, lo, mid)
             right == Scan(op, col, mid + 1, hi)
         IN  left \o Series([k \in 1..Len(right) |-> Fold(op, left[Len(left)], right[k])],
                            Len(right))

\* the sum of col[lo..hi]
SumRange(col, lo, hi) ==
    IF lo > hi THEN Zero ELSE Scan([name |-> "sum"], col, lo, hi)[hi - lo + 1]

\* Series.rolling(window=w).mean(): min_periods defaults to w
Rolling(col, w) ==
    Series([i \in 1..Len(col) |->
               IF i < w THEN NaN ELSE FDiv(SumRange(col, i - w + 1, i), Num(w))],
           Len(col))

\* Series.shift(0): no lag
ShiftNone(col) == col

\* Series.shift(-1): the next row's value
ShiftBack(col) ==
    Series([i \in 1..Len(col) |-> IF i = Len(col) THEN NaN ELSE col[i + 1]], Len(col))

\* Series.shift(1)
Shift(col) == Series([i \in 1..Len(col) |-> IF i = 1 THEN NaN ELSE col[i - 1]], Len(col))

\* Series.diff()
Diff(col) ==
    Series([i \in 1..Len(col) |-> IF i = 1 THEN NaN ELSE FSub(col[i], col[i - 1])],
           Len(col))

\* Series.pct_change(): close[t] / close[t-1] - 1
PctChange(col) ==
    Series([i \in 1..Len(col) |->
               IF i = 1 THEN NaN ELSE FSub(FDiv(col[i], col[i - 1]), One)],
           Len(col))

\* the numerators of Series.ewm(com=c, adjust=True).mean() at rows 1..n:
\* at row i, the sum over j <= i of (c/(1+c))^(i-j) * x[j]
EwmSums(col, c, n) ==
    LET stretch == Series([i \in 1..n |-> <<col[i], 1>>], n)
        run == Scan([name |-> "ewm", com |-> c], stretch, 1, n)
    IN  Series([i \in 1..n |-> run[i][1]], n)

\* Series.ewm(com=c, min_periods=m).mean(), every row scaled by the row's
\* total weight W[i] = sum over j <= i of (c/(1+c))^(i-j) > 0.  The two uses
\* of it (Avg_Gain, Avg_Loss) are only ever divided by one another at the
\* same row, where W[i] cancels, and x = 0 iff W[i] * x = 0.
EwmScaled(col, c, m) ==
    LET sums == EwmSums(col, c, Len(col))
    IN  Series([i \in 1..Len(col) |-> IF i < m THEN NaN ELSE sums[i]], Len(col))

\* running product / maximum / minimum of the values of col[1..n] that are
\* not NaN (One / NaN / NaN while there is none)
ProdAcc(col, n) ==
    Scan([name |-> "prod"], Series([i \in 1..n |-> IF IsNaN(col[i]) THEN One ELSE col[i]], n), 1, n)
MaxAcc(col, n) == Scan([name |-> "max"], col, 1, n)
MinAcc(col, n) == Scan([name |-> "min"], col, 1, n)

\* Series.cumprod() / Series.cummax(): skipna=True leaves NaN in place and
\* carries the running value over it
CumProd(col) ==
    LET acc == ProdAcc(col, Len(col))
    IN  Series([i \in 1..Len(col) |-> IF IsNaN(col[i]) THEN NaN ELSE acc[i]], Len(col))
CumMax(col) ==
    LET acc == MaxAcc(col, Len(col))
    IN  Series([i \in 1..Len(col) |-> IF IsNaN(col[i]) THEN NaN ELSE acc[i]], Len(col))

\* Series.fillna(0)
Fillna0(col) ==
    Series([i \in 1..Len(col) |-> IF IsNaN(col[i]) THEN Zero ELSE col[i]], Len(col))

\* Series.min(): NaN skipped; NaN when nothing is left
SeriesMin(col) == IF Len(col) = 0 THEN NaN ELSE MinAcc(col, Len(col))[Len(col)]

Valid(col) == SelectSeq(col, LAMBDA x : ~IsNaN(x))

\* Series.mean(): NaN skipped; NaN when nothing is left
SeriesMean(col) ==
    LET v == Valid(col)
    IN  IF Len(v) = 0 THEN NaN ELSE FDiv(SumRange(v, 1, Len(v)), Num(Len(v)))

\* the square of Series.std(): ddof = 1, NaN skipped, NaN with fewer than
\* two values left
SeriesVar(col) ==
    LET v == Valid(col)
        m == SeriesMean(col)
        sq == Series([i \in 1..Len(v) |-> FMul(FSub(v[i], m), FSub(v[i], m))], Len(v))
    IN  IF Len(v) < 2 THEN NaN ELSE FDiv(SumRange(sq, 1, Len(v)), Num(Len(v) - 1))

\* np.where(cond, 1.0, 0.0)
Where10(cond, n) == Series([i \in 1..n |-> IF cond[i] THEN One ELSE Zero], n)

\* Series.iloc[-1]: "IndexError" on an empty Series
HasLast(f) == Len(f) > 0
Last(col) == col[Len(col)]

----------------------------------------------------------------------------
(* Input of the backtesters: what yf.download returns.  A bar is a row     *)
(* [date, Close]; date is the bar's position in the downloaded series and  *)
(* stays with the row when other rows are dropped.  A bar with a missing   *)
(* field has Close = NaN.  The series are a constant lead-in of LeadIn     *)
(* bars followed by at most MaxTail free bars.                             *)

Prices == 1..MaxPrice
LeadIns == {0, EWM_MIN_PERIODS - 2, SMA_SLOW - 1}

SeqsUpTo(S, n) == UNION {[1..k -> S] : k \in 0..n}

Bars(lead, base, tail) ==
    [i \in 1..(lead + Len(tail)) |->
        [date |-> i, Close |-> IF i <= lead THEN Num(base) ELSE tail[i - lead]]]

InputSeries ==
    {Bars(lead, base, tail) :
        lead \in LeadIns, base \in Prices,
        tail \in SeqsUpTo({Num(p) : p \in Prices} \cup {NaN}, MaxTail)}

----------------------------------------------------------------------------
(* BacktesterV1.py, statement group by statement group.                    *)

\* lines 14-16
V1_sma(f) ==
    LET close == Col(f, "Close")
    IN  WithCol(WithCol(f, "SMA_10", Rolling(close, SMA_FAST)),
                "SMA_50", Rolling(close, SMA_SLOW))

\* line 22
V1_position(f) ==
    WithCol(f, "Position",
            Where10([i \in 1..Len(f) |-> FGt(f[i]["SMA_10"], f[i]["SMA_50"])], Len(f)))

\* lines 25-30
V1_returns(f) ==
    LET daily == PctChange(Col(f, "Close"))
        lag == Shift(Col(f, "Position"))
    IN  WithCol(WithCol(f, "daily_returns", daily),
                "strategy_returns", [i \in 1..Len(f) |-> FMul(daily[i], lag[i])])

\* lines 32 and 37
V1_cumulative(f) ==
    LET plus1(c) == Series([i \in 1..Len(f) |-> FAdd(f[i][c], One)], Len(f))
    IN  WithCol(WithCol(f, "cumulative_returns", CumProd(plus1("strategy_returns"))),
                "buy_hold_returns", CumProd(plus1("daily_returns")))

\* lines 40-43: (mean_dr / std_dr) * sqrt(252), as sign(s) * s^2
V1_annual_sharpe(f) ==
    LET mean_dr == SeriesMean(Col(f, "strategy_returns"))
        var_dr == SeriesVar(Col(f, "strategy_returns"))
    IN  FMul(FDiv(SignedSquare(mean_dr), var_dr), Num(TRADING_DAYS))

\* lines 46-48
V1_drawdown(f) ==
    LET cum == Col(f, "cumulative_returns")
        run == CumMax(cum)
    IN  WithCol(WithCol(f, "Running_max", run),
                "Drawdown", [i \in 1..Len(f) |-> FSub(FDiv(cum[i], run[i]), One)])

----------------------------------------------------------------------------
(* BacktesterV2.py, statement group by statement group.                    *)

\* lines 17-27.  Avg_Gain and Avg_Loss are held scaled by the row's total
\* ewm weight (see EwmScaled); RS and RSI are the script's values.
V2_features(f) ==
    LET close == Col(f, "Close")
        change == Diff(close)
        gain == Series([i \in 1..Len(f) |->
                           IF FGt(change[i], Zero) THEN change[i] ELSE Zero], Len(f))
        loss == Series([i \in 1..Len(f) |->
                           IF FLt(change[i], Zero) THEN FNeg(change[i]) ELSE Zero], Len(f))
        avg_gain == EwmScaled(gain, EWM_COM, EWM_MIN_PERIODS)
        avg_loss == EwmScaled(loss, EWM_COM, EWM_MIN_PERIODS)
        sma_10 == Rolling(close, SMA_FAST)
        sma_50 == Rolling(close, SMA_SLOW)
    IN  Series([i \in 1..Len(f) |->
            LET rs == FDiv(avg_gain[i], avg_loss[i])
            IN  f[i] @@ [SMA_10 |-> sma_10[i],
                         SMA_50 |-> sma_50[i],
                         Change |-> change[i], Gain |-> gain[i], Loss |-> loss[i],
                         Avg_Gain |-> avg_gain[i], Avg_Loss |-> avg_loss[i],
                         RS |-> rs,
                         RSI |-> FSub(Num(100), FDiv(Num(100), FAdd(One, rs)))]],
               Len(f))

\* line 30
V2_signal(f) ==
    WithCol(f, "Signal",
            Where10([i \in 1..Len(f) |->
                        /\ FGt(f[i]["SMA_10"], f[i]["SMA_50"])
                        /\ FLt(f[i]["RSI"], Num(RSI_OVERBOUGHT))], Len(f)))

\* lines 33-36
V2_engine(f) ==
    LET market == PctChange(Col(f, "Close"))
        lag == Shift(Col(f, "Signal"))
        strategy == Series([i \in 1..Len(f) |-> FMul(market[i], lag[i])], Len(f))
        plus1(col) == Series([i \in 1..Len(f) |-> FAdd(One, col[i])], Len(f))
        cum_market == CumProd(plus1(Fillna0(market)))
        cum_strategy == CumProd(plus1(Fillna0(strategy)))
    IN  Series([i \in 1..Len(f) |->
            f[i] @@ [Market_returns |-> market[i],
                     Strategy_returns |-> strategy[i],
                     Cumulative_market |-> cum_market[i],
                     Cumulative_strategy |-> cum_strategy[i]]],
               Len(f))

\* lines 39-43, as sign(s) * s^2
V2_sharpe(f) ==
    LET var == SeriesVar(Col(f, "Strategy_returns"))
    IN  IF FGt(var, Zero)
        THEN FMul(FDiv(SignedSquare(SeriesMean(Col(f, "Strategy_returns"))), var),
                  Num(TRADING_DAYS))
        ELSE Zero

\* lines 46-47
V2_drawdown(f) ==
    LET cum == Col(f, "Cumulative_strategy")
        peak == CumMax(cum)
    IN  WithCol(WithCol(f, "Peak", peak),
                "Drawdown", [i \in 1..Len(f) |-> FSub(FDiv(cum[i], peak[i]), One)])

----------------------------------------------------------------------------
(* The backtesters as state machines.  pc names the statement group that   *)
(* runs next; "done" is the end of the script, "raised" an uncaught        *)
(* exception.                                                              *)

Idle == /\ tz = 0 /\ feed = <<>> /\ idx = 0
        /\ all_market_news = <<>> /\ stdout = <<>>

InitBacktest ==
    /\ prog \in {"V1", "V2"}
    /\ pc = "clean"
    /\ data \in InputSeries
    /\ peer = <<>> /\ cut = 0
    /\ std = NaN /\ sharpe = NaN /\ max_dd = NaN
    /\ printed = <<>> /\ raised = "none"
    /\ Idle

Frame(p, from, to, f) ==
    /\ prog = p /\ pc = from
    /\ data' = f
    /\ pc' = to
    /\ UNCHANGED <<prog, peer, cut, std, sharpe, max_dd, printed, raised>>
    /\ UNCHANGED newsVars

\* V1 line 11
V1_Clean == Frame("V1", "clean", "sma", Dropna(data))
\* V1 lines 14-16
V1_SMA == Frame("V1", "sma", "warmup", V1_sma(data))
\* V1 line 18
V1_DropWarmup == Frame("V1", "warmup", "position", Dropna(data))
\* V1 line 22
V1_Position == Frame("V1", "position", "returns", V1_position(data))
\* V1 lines 25-30
V1_Returns == Frame("V1", "returns", "cumulative", V1_returns(data))
\* V1 lines 32-37
V1_Cumulative == Frame("V1", "cumulative", "sharpe", V1_cumulative(data))

\* V1 lines 40-43
V1_Sharpe ==
    /\ prog = "V1" /\ pc = "sharpe"
    /\ std' = SeriesVar(Col(data, "strategy_returns"))
    /\ sharpe' = V1_annual_sharpe(data)
    /\ pc' = "maxdd"
    /\ UNCHANGED <<prog, data, peer, cut, max_dd, printed, raised>>
    /\ UNCHANGED newsVars

\* V1 lines 46-49
V1_MaxDD ==
    /\ prog = "V1" /\ pc = "maxdd"
    /\ data' = V1_drawdown(data)
    /\ max_dd' = SeriesMin(Col(data', "Drawdown"))
    /\ pc' = "output"
    /\ UNCHANGED <<prog, peer, cut, std, sharpe, printed, raised>>
    /\ UNCHANGED newsVars

\* V1 lines 54-57: the Sharpe and drawdown lines are printed before
\* iloc[-1] is evaluated
V1_Output ==
    /\ prog = "V1" /\ pc = "output"
    /\ IF HasLast(data)
       THEN /\ printed' = <<sharpe, FMul(max_dd, Num(100)),
                            Last(Col(data, "cumulative_returns"))>>
            /\ raised' = "none"
            /\ pc' = "done"
       ELSE /\ printed' = <<sharpe, FMul(max_dd, Num(100))>>
            /\ raised' = "IndexError"
            /\ pc' = "raised"
    /\ UNCHANGED <<prog, data, peer, cut, std, sharpe, max_dd>>
    /\ UNCHANGED newsVars

\* V2 line 14
V2_Clean == Frame("V2", "clean", "features", Dropna(data))
\* V2 lines 17-27
V2_Features == Frame("V2", "features", "signal", V2_features(data))
\* V2 line 30
V2_Signal == Frame("V2", "signal", "engine", V2_signal(data))
\* V2 lines 33-36
V2_Engine == Frame("V2", "engine", "risk", V2_engine(data))

\* V2 lines 39-43
V2_Risk ==
    /\ prog = "V2" /\ pc = "risk"
    /\ std' = SeriesVar(Col(data, "Strategy_returns"))
    /\ sharpe' = V2_sharpe(data)
    /\ pc' = "maxdd"
    /\ UNCHANGED <<prog, data, peer, cut, max_dd, printed, raised>>
    /\ UNCHANGED newsVars

\* V2 lines 46-48
V2_MaxDD ==
    /\ prog = "V2" /\ pc = "maxdd"
    /\ data' = V2_drawdown(data)
    /\ max_dd' = SeriesMin(Col(data', "Drawdown"))
    /\ pc' = "output"
    /\ UNCHANGED <<prog, peer, cut, std, sharpe, printed, raised>>
    /\ UNCHANGED newsVars

\* V2 lines 52-55: iloc[-1] is evaluated by the first print
V2_Output ==
    /\ prog = "V2" /\ pc = "output"
    /\ IF HasLast(data)
       THEN /\ printed' = <<Last(Col(data, "Cumulative_strategy")),
                            Last(Col(data, "Cumulative_market")),
                            FMul(max_dd, Num(100)), sharpe>>
            /\ raised' = "none"
            /\ pc' = "done"
       ELSE /\ printed' = <<>>
            /\ raised' = "IndexError"
            /\ pc' = "raised"
    /\ UNCHANGED <<prog, data, peer, cut, std, sharpe, max_dd>>
    /\ UNCHANGED newsVars

NextBacktest ==
    \/ V1_Clean \/ V1_SMA \/ V1_DropWarmup \/ V1_Position \/ V1_Returns
    \/ V1_Cumulative \/ V1_Sharpe \/ V1_MaxDD \/ V1_Output
    \/ V2_Clean \/ V2_Features \/ V2_Signal \/ V2_Engine
    \/ V2_Risk \/ V2_MaxDD \/ V2_Output

SpecBacktest == InitBacktest /\ [][NextBacktest]_vars

----------------------------------------------------------------------------
(* Two runs of one backtester side by side, on two downloads that differ   *)
(* in exactly one bar, the bar dated cut; both runs execute the same       *)
(* statement group in each step.  The runs end where the strategy returns  *)
(* are computed.  Only bars after the lead-in are replaced.                *)

CleanSeries ==
    {Bars(lead, base, tail) :
        lead \in {SMA_SLOW - 1}, base \in Prices,
        tail \in SeqsUpTo({Num(p) : p \in Prices}, PairTail)}

Replace(f, d, p) == [i \in 1..Len(f) |-> IF i = d THEN [f[i] EXCEPT !.Close = Num(p)] ELSE f[i]]

InitPair ==
    /\ prog \in {"V1", "V2"}
    /\ pc = "clean"
    /\ data \in CleanSeries
    /\ cut \in SMA_SLOW..Len(data)
    /\ \E p \in Prices : /\ Num(p) # data[cut].Close
                         /\ peer = Replace(data, cut, p)
    /\ std = NaN /\ sharpe = NaN /\ max_dd = NaN
    /\ printed = <<>> /\ raised = "none"
    /\ Idle

Both(p, from, to, f, g) ==
    /\ prog = p /\ pc = from
    /\ data' = f
    /\ peer' = g
    /\ pc' = to
    /\ UNCHANGED <<prog, cut, std, sharpe, max_dd, printed, raised>>
    /\ UNCHANGED newsVars

Pair_V1_Clean == Both("V1", "clean", "sma", Dropna(data), Dropna(peer))
Pair_V1_SMA == Both("V1", "sma", "warmup", V1_sma(data), V1_sma(peer))
Pair_V1_DropWarmup == Both("V1", "warmup", "position", Dropna(data), Dropna(peer))
Pair_V1_Position == Both("V1", "position", "returns", V1_position(data), V1_position(peer))
Pair_V1_Returns == Both("V1", "returns", "compared", V1_returns(data), V1_returns(peer))
Pair_V2_Clean == Both("V2", "clean", "features", Dropna(data), Dropna(peer))
Pair_V2_Features == Both("V2", "features", "signal", V2_features(data), V2_features(peer))
Pair_V2_Signal == Both("V2", "signal", "engine", V2_signal(data), V2_signal(peer))
Pair_V2_Engine == Both("V2", "engine", "compared", V2_engine(data), V2_engine(peer))

NextPair ==
    \/ Pair_V1_Clean \/ Pair_V1_SMA \/ Pair_V1_DropWarmup \/ Pair_V1_Position
    \/ Pair_V1_Returns
    \/ Pair_V2_Clean \/ Pair_V2_Features \/ Pair_V2_Signal \/ Pair_V2_Engine

SpecPair == InitPair /\ [][NextPair]_vars

----------------------------------------------------------------------------
(* Properties of the backtesters.                                          *)

HasCol(f, c) == Len(f) > 0 /\ c \in DOMAIN f[1]
SigCol == IF prog = "V1" THEN "Position" ELSE "Signal"
StratCol == IF prog = "V1" THEN "strategy_returns" ELSE "Strategy_returns"

\* close[i] / close[i-1] - 1 over the rows of the frame, i >= 2
RawReturn(f, i) == FSub(FDiv(f[i]["Close"], f[i - 1]["Close"]), One)

\* C1: in both backtesters, at every row i of the frame that has a row before
\* it, the strategy return is the close-to-close return of row i times the
\* signal of row i-1.
C1_LaggedSignal ==
    HasCol(data, StratCol) =>
        \A i \in 2..Len(data) :
            data[i][StratCol] = FMul(RawReturn(data, i), data[i - 1][SigCol])

\* C1 witness: the returns are computed and at some row the price moved and
\* the signal of the row differs from the signal of the row before, so the
\* lag decides the strategy return.
C1_Witness ==
    /\ HasCol(data, StratCol)
    /\ \E i \in 2..Len(data) :
          /\ RawReturn(data, i) # Zero
          /\ data[i][SigCol] # data[i - 1][SigCol]

\* the values column c holds at date d in frame f: one value, or none when
\* the row is not in the frame
At(f, c, d) == {f[i][c] : i \in {j \in 1..Len(f) : f[j]["date"] = d}}

Compared == pc = "compared"

Compounds(f, cum, ret) ==
    HasCol(f, cum) =>
        /\ f[1][cum] = One
        /\ \A i \in 2..Len(f) :
              f[i][cum] = FMul(f[i - 1][cum],
                               FAdd(One, IF IsNaN(f[i][ret]) THEN Zero ELSE f[i][ret]))

C3_Compounding ==
    /\ Compounds(data, "cumulative_returns", "strategy_returns")
    /\ Compounds(data, "buy_hold_returns", "daily_returns")
    /\ Compounds(data, "Cumulative_strategy", "Strategy_returns")
    /\ Compounds(data, "Cumulative_market", "Market_returns")

\* C4: whenever the standard deviation of the daily strategy returns is 0,
\* the script ends without raising and the Sharpe ratio it reports is 0.
Reported == pc \in {"output", "done", "raised"}

C4_SharpeZeroWhenFlat ==
    (Reported /\ std = Zero) => (sharpe = Zero /\ raised = "none")

\* C5: in BacktesterV2, at every row with at least 14 observations the RSI is
\* a number between 0 and 100, and it is 100 exactly when the smoothed
\* average loss is 0.
C5_RsiBounded ==
    (prog = "V2" /\ HasCol(data, "RSI")) =>
        \A i \in EWM_MIN_PERIODS..Len(data) :
            /\ FLe(Zero, data[i]["RSI"])
            /\ FLe(data[i]["RSI"], Num(100))
            /\ (data[i]["RSI"] = Num(100)) <=> (data[i]["Avg_Loss"] = Zero)

\* C6: the drawdown of every row is cumulative / running maximum - 1 and is
\* <= 0, and max_dd is the least drawdown of the frame.
CumCol == IF prog = "V1" THEN "cumulative_returns" ELSE "Cumulative_strategy"

C6_DrawdownBound ==
    (Reported /\ HasCol(data, "Drawdown")) =>
        /\ \A i \in 1..Len(data) :
              /\ FLe(data[i]["Drawdown"], Zero)
              /\ \E j \in 1..i :
                    /\ \A k \in 1..i : FLe(data[k][CumCol], data[j][CumCol])
                    /\ data[i]["Drawdown"]
                          = FSub(FDiv(data[i][CumCol], data[j][CumCol]), One)
        /\ \E i \in 1..Len(data) : data[i]["Drawdown"] = max_dd
        /\ \A i \in 1..Len(data) : FLe(max_dd, data[i]["Drawdown"])

\* C8: on every series, the empty one and the ones shorter than the slow
\* window included, the script ends without raising, with a complete report.
C8_NeverRaises ==
    /\ raised = "none"
    /\ pc = "done" => Len(printed) >= 3

\* C9: once the signal is computed, no row of the frame has an indicator that
\* its warm-up window leaves undefined (fast SMA, slow SMA, and in V2 the
\* smoothed averages behind the RSI).
C9_WarmupRowsDropped ==
    HasCol(data, SigCol) =>
        \A i \in 1..Len(data) :
            /\ ~IsNaN(data[i]["SMA_10"])
            /\ ~IsNaN(data[i]["SMA_50"])
            /\ prog = "V2" => (~IsNaN(data[i]["Avg_Gain"]) /\ ~IsNaN(data[i]["Avg_Loss"]))

----------------------------------------------------------------------------
(* news_gathererV1.py                                                      *)
(*                                                                         *)
(* Time is counted in hours.  A story's raw timestamp is one of            *)
(*   [kind |-> "unix", at |-> t]           providerPublishTime, a number   *)
(*   [kind |-> "iso", at |-> t, off |-> o]  a pubDate string written with  *)
(*                                         UTC offset o ("Z" is offset 0)  *)
(*   [kind |-> "text", at |-> t]           a pubDate string that           *)
(*                                         fromisoformat rejects           *)
(*   [kind |-> "none", at |-> 0]           no timestamp under any key      *)
(* where `at` is the instant (UTC) the story was published.  A string is a *)
(* sequence of character codes; Python compares strings code by code.      *)

watchlist ==
    << [name |-> "Google", ticker |-> "GOOGL"],
       [name |-> "Tesla", ticker |-> "TSLA"],
       [name |-> "Palantir", ticker |-> "PLTR"],
       [name |-> "Nvidia", ticker |-> "NVDA"],
       [name |-> "Gold", ticker |-> "GC=F"],
       [name |-> "Silver", ticker |-> "SI=F"] >>

\* the publish instants, the UTC offsets an ISO string is written with, and
\* the local UTC offsets of the machine that the model draws from
Instants == {1, 2}
Offsets == {0, 1}
LocalOffsets == {-1, 0, 1}

RawTimes ==
    {[kind |-> "unix", at |-> t, off |-> 0] : t \in Instants}
    \cup {[kind |-> "iso", at |-> t, off |-> o] : t \in Instants, o \in Offsets}
    \cup {[kind |-> "text", at |-> t, off |-> 0] : t \in Instants}
    \cup {[kind |-> "none", at |-> 0, off |-> 0]}

\* dt_object.strftime(...): the wall-clock reading, zero-padded to a fixed
\* width (two digits here), as character codes ("0" is 48)
Strftime(wall) == <<48 + (wall \div 10), 48 + (wall % 10)>>

\* str(raw_time) of a pubDate string that is not ISO: it starts with a letter
RawText(t) == <<77, 48 + t>>
UnknownTime == <<85>>

\* lines 50-75: the time string of a story
TimeStr(raw, local) ==
    CASE raw.kind = "unix" -> Strftime(raw.at + local)
      [] raw.kind = "iso" -> Strftime(raw.at + raw.off)
      [] raw.kind = "text" -> RawText(raw.at)
      [] OTHER -> UnknownTime

\* lines 23-92: get_news on a newslist that was fetched
get_news(entry, newslist, local) ==
    [k \in 1..Len(newslist) |->
        [company |-> entry.name, ticker |-> entry.ticker,
         time |-> TimeStr(newslist[k], local),
         published |-> newslist[k].at]]

\* Python's a < b on strings
RECURSIVE StrLt(_, _)
StrLt(a, b) ==
    IF Len(b) = 0 THEN FALSE
    ELSE IF Len(a) = 0 THEN TRUE
    ELSE IF Head(a) # Head(b) THEN Head(a) < Head(b)
    ELSE StrLt(Tail(a), Tail(b))

\* list.sort(key=lambda x: x['time'], reverse=True): descending by key,
\* records with equal keys keep their order
RECURSIVE InsertDesc(_, _)
InsertDesc(sorted, x) ==
    IF Len(sorted) = 0 THEN <<x>>
    ELSE IF StrLt(Head(sorted).time, x.time) THEN <<x>> \o sorted
    ELSE <<Head(sorted)>> \o InsertDesc(Tail(sorted), x)

RECURSIVE SortDesc(_)
SortDesc(list) ==
    IF Len(list) = 0 THEN <<>>
    ELSE InsertDesc(SortDesc(SubSeq(list, 1, Len(list) - 1)), list[Len(list)])

Fetched == IF feed = <<>> THEN 0
           ELSE LET n[i \in 0..Len(feed)] ==
                        IF i = 0 THEN 0
                        ELSE n[i - 1] + Len(feed[i].news)
                IN  n[Len(feed)]

InitNews ==
    /\ prog = "news"
    /\ pc = "loop"
    /\ tz \in LocalOffsets
    /\ feed = <<>>
    /\ idx = 1
    /\ all_market_news = <<>>
    /\ stdout = <<>>
    /\ data = <<>> /\ peer = <<>> /\ cut = 0
    /\ std = NaN /\ sharpe = NaN /\ max_dd = NaN
    /\ printed = <<>> /\ raised = "none"

\* lines 100-105: an iteration whose get_news returns
FetchReturns ==
    /\ prog = "news" /\ pc = "loop" /\ idx <= Len(watchlist)
    /\ \E newslist \in SeqsUpTo(RawTimes, 1) :
          /\ Fetched + Len(newslist) <= MaxStories
          /\ feed' = Append(feed, [raised |-> FALSE, news |-> newslist])
          /\ all_market_news' =
                all_market_news \o get_news(watchlist[idx], newslist, tz)
    /\ idx' = idx + 1
    /\ UNCHANGED <<prog, pc, tz, stdout>>
    /\ UNCHANGED btVars

\* an iteration whose exception is not caught: the script ends there
FetchAborts ==
    /\ prog = "news" /\ pc = "loop" /\ idx <= Len(watchlist)
    /\ feed' = Append(feed, [raised |-> TRUE, news |-> <<>>])
    /\ raised' = "Exception"
    /\ pc' = "raised"
    /\ UNCHANGED <<prog, tz, idx, all_market_news, stdout>>
    /\ UNCHANGED <<data, peer, cut, std, sharpe, max_dd, printed>>

\* lines 100-108: an iteration whose get_news raises
FetchRaises ==
    /\ prog = "news" /\ pc = "loop" /\ idx <= Len(watchlist)
    /\ feed' = Append(feed, [raised |-> TRUE, news |-> <<>>])
    /\ stdout' = Append(stdout, [line |-> "Error on", ticker |-> watchlist[idx].ticker])
    /\ idx' = idx + 1
    /\ UNCHANGED <<prog, pc, tz, all_market_news>>
    /\ UNCHANGED btVars

\* line 114
Sort ==
    /\ prog = "news" /\ pc = "loop" /\ idx > Len(watchlist)
    /\ all_market_news' = SortDesc(all_market_news)
    /\ pc' = "display"
    /\ UNCHANGED <<prog, tz, feed, idx, stdout>>
    /\ UNCHANGED btVars

\* lines 117-123
Display ==
    /\ prog = "news" /\ pc = "display"
    /\ stdout' = stdout \o [k \in 1..Len(all_market_news) |->
                              [line |-> all_market_news[k].time,
                               ticker |-> all_market_news[k].ticker]]
    /\ pc' = "done"
    /\ UNCHANGED <<prog, tz, feed, idx, all_market_news>>
    /\ UNCHANGED btVars

NextNews == FetchReturns \/ FetchRaises \/ Sort \/ Display

SpecNews == InitNews /\ [][NextNews]_vars

----------------------------------------------------------------------------
(* Properties of the news gatherer.                                        *)

Count(seq, x) == Cardinality({k \in 1..Len(seq) : seq[k] = x})
SameRecords(a, b) ==
    /\ Len(a) = Len(b)
    /\ \A k \in 1..Len(a) : Count(a, a[k]) = Count(b, a[k])

\* what get_news returned over the entries fetched so far, in fetch order
RECURSIVE Returned(_)
Returned(n) ==
    IF n = 0 THEN <<>>
    ELSE Returned(n - 1) \o get_news(watchlist[n], feed[n].news, tz)

Failing == {i \in 1..Len(feed) : feed[i].raised}
Sorted == prog = "news" /\ pc \in {"display", "done"}

\* C7 as stated: when fetching an instrument raised, the loop has still gone
\* through the whole watchlist, the list holds the records of every other
\* instrument, and the list holds an entry marking the failing instrument.
C7_BatchResilienceAsStated ==
    /\ prog = "news" => raised = "none"
    /\ Sorted =>
          /\ Len(feed) = Len(watchlist)
          /\ SameRecords(SelectSeq(all_market_news,
                                   LAMBDA r : \A i \in Failing :
                                                 r.ticker # watchlist[i].ticker),
                         Returned(Len(feed)))
          /\ \A i \in Failing :
                \E k \in 1..Len(all_market_news) :
                    all_market_news[k].ticker = watchlist[i].ticker

\* C7 amended: when fetching an instrument raised, the script does not end
\* there, the loop goes through the whole watchlist, the list holds exactly
\* the records of the other instruments, and the failing instrument is
\* marked by an "Error on <ticker>" line on the output, not in the list.
C7_BatchResilience ==
    /\ prog = "news" => raised = "none"
    /\ (prog = "news" /\ pc = "loop") => Len(feed) = idx - 1
    /\ Sorted =>
          /\ Len(feed) = Len(watchlist)
          /\ SameRecords(all_market_news, Returned(Len(feed)))
          /\ \A i \in Failing :
                /\ \E k \in 1..Len(stdout) :
                      stdout[k] = [line |-> "Error on", ticker |-> watchlist[i].ticker]
                /\ \A k \in 1..Len(all_market_news) :
                      all_market_news[k].ticker # watchlist[i].ticker

\* C7 witness: the run is over, exactly one fetch raised, and the list holds
\* a story of an instrument before it and one of an instrument after it.
C7_Witness ==
    /\ prog = "news" /\ pc = "done"
    /\ Cardinality(Failing) = 1
    /\ \E i \in Failing :
          /\ \E j \in 1..(i - 1) : \E k \in 1..Len(all_market_news) :
                all_market_news[k].ticker = watchlist[j].ticker
          /\ \E j \in (i + 1)..Len(watchlist) : \E k \in 1..Len(all_market_news) :
                all_market_news[k].ticker = watchlist[j].ticker

\* C10: after the sort, of any two records whose stories carried a publish
\* time, the one published later is not behind the one published earlier.
C10_NewestFirst ==
    Sorted =>
        \A i \in 1..Len(all_market_news) : \A j \in (i + 1)..Len(all_market_news) :
            (all_market_news[i].published # 0 /\ all_market_news[j].published # 0)
                => all_market_news[i].published >= all_market_news[j].published

----------------------------------------------------------------------------
(* The three scripts together.                                             *)

Init == InitBacktest \/ InitNews
Next == NextBacktest \/ NextNews
Spec == Init /\ [][Next]_vars

====
